---- MODULE Spec2Model ----
(***************************************************************************)
(* A model of tchannel/outgoing.py: one TChannelOutOps connection with its *)
(* sender and receiver threads, and the OutgoingTChannel registry that     *)
(* pools such connections by (host, port).                                 *)
(*                                                                         *)
(* Five specifications share the module:                                   *)
(*   Spec      one TChannelOutOps used directly by NumThreads threads      *)
(*   SpecLive  Spec under fair scheduling of the loops and of close()      *)
(*   SpecPool  one OutgoingTChannel used by NumThreads threads             *)
(*   SpecEvict its request() and close() calls, a thread closing the       *)
(*             connection its request() returned                           *)
(*   SpecCall  send()'s handle_response applied to one response            *)
(***************************************************************************)
EXTENDS Naturals, Sequences, FiniteSets, TLC

\* ------------------------------------------------------------------ bounds
NumThreads == 3     \* application threads
MaxSpurious == 1    \* frames the peer sends that answer no written request
NumKeys == 2        \* distinct (host, port) destinations
MaxCode == 2        \* response status codes are 0..MaxCode
MaxArg == 1         \* each response argument is one of 0..MaxArg
MaxFollowUps == 1   \* registry threads that close the connection they got

Threads == 1..NumThreads
Keys == 1..NumKeys

\* ------------------------------------------------------------------- state
VARIABLES
    \* -- TChannelOutOps (outgoing.py 66-85)
    perform_handshake,  \* the constructor's argument
    state,              \* self._state: "init" | "ready" | "closed"
    outstanding,        \* self._outstanding: FIFO of calls, 0 is None
    id_counter,         \* self._id_counter
    futures,            \* self._futures: message id -> call whose future it holds
    sender,             \* position of the sender thread
    sreq,               \* the request the sender has dequeued (0: none)
    receiver,           \* position of the receiver thread
    sock_open,          \* self._sock is not yet closed
    wire,               \* call frames written to the socket, in order
    hs_sent,            \* handshake frames written to the socket
    inbound,            \* frames from the peer not yet read, in arrival order
    answered,           \* message ids the peer has answered
    n_spurious,         \* spurious frames the peer has sent
    results,            \* call -> the frame its future was resolved with
    dequeued,           \* calls in the order the sender dequeued them
    enqueued,           \* calls in the order _submit put them on the queue
    pc,                 \* position of each application thread
    n_put,              \* poison markers enqueued by close()
    n_join,             \* successful self._sender.join() in close()
    n_sockclose,        \* self._sock.close() calls in close()
    n_cb,               \* self._on_close(self) invocations
    overlapped,         \* a close()/handshake() began inside another one
    \* -- OutgoingTChannel (outgoing.py 263-350). Each registry thread makes
    \* one call; a socket, and the connection built on it, is named by the
    \* thread whose request() opened it.
    connections,        \* self._connections: key -> connection (0: absent)
    lock,               \* holder of self._lock (0: free)
    conn_state,         \* connection -> "none" | "ready" | "closed"
    sock_closed,        \* socket -> sock.close() was called on it
    ppc,                \* position of each registry thread
    pkey,               \* key of the thread's request (0: none)
    psock,              \* the thread's request opened a socket
    pret,               \* connection the thread's request returned (0: none)
    ptarget,            \* connection the thread's close() is for (0: none)
    psnap,              \* registry close(): the values() snapshot
    ptodo,              \* registry close(): connections still to close
    pdone,              \* registry close(): closes it carried out itself
    pfail,              \* registry close(): closes that raised socket.error
    pdisturbed,         \* registry close(): a request() ran concurrently
    closed_done,        \* connections closed by a close() that has returned
    spared,             \* connections a callback for another one found mapped
    \* -- send()'s response handling (outgoing.py 193-208)
    response,           \* the response delivered to the call's future
    async,              \* send()'s async argument
    call_pc,            \* "pending" | "resolved" | "returned"
    handle,             \* send() has returned the future to its caller
    result_future,      \* transform_future(future, handle_response)
    outcome             \* what the caller ends up with

connVars == <<perform_handshake, state, outstanding, id_counter, futures,
              sender, sreq, receiver, sock_open, wire, hs_sent, inbound,
              answered, n_spurious, results, dequeued, enqueued, pc,
              n_put, n_join, n_sockclose, n_cb, overlapped>>
poolVars == <<connections, lock, conn_state, sock_closed, ppc, pkey, psock,
              pret, ptarget, psnap, ptodo, pdone, pfail, pdisturbed,
              closed_done, spared>>
callVars == <<response, async, call_pc, handle, result_future, outcome>>
vars == <<connVars, poolVars, callVars>>

senderVars == <<sender, sreq, dequeued>>
tableVars == <<id_counter, futures>>
peerVars == <<inbound, answered, n_spurious>>
threadVars == <<pc, overlapped, enqueued>>
closeCounts == <<n_put, n_join, n_sockclose, n_cb>>

NoFrame == [id |-> 0, body |-> 0]
None == 0

\* The parts of the state a specification does not use stay at these values.
ConnIdle ==
    /\ perform_handshake = TRUE /\ state = "ready" /\ outstanding = <<>>
    /\ id_counter = 0 /\ futures = <<>> /\ sender = "check" /\ sreq = 0
    /\ receiver = "check" /\ sock_open = TRUE /\ wire = <<>> /\ hs_sent = 1
    /\ inbound = <<>> /\ answered = {} /\ n_spurious = 0
    /\ results = [r \in Threads |-> NoFrame] /\ dequeued = <<>>
    /\ enqueued = <<>>
    /\ pc = [t \in Threads |-> "idle"]
    /\ n_put = 0 /\ n_join = 0 /\ n_sockclose = 0 /\ n_cb = 0
    /\ overlapped = FALSE
PoolIdle ==
    /\ connections = [k \in Keys |-> 0] /\ lock = 0
    /\ conn_state = [c \in Threads |-> "none"]
    /\ sock_closed = [c \in Threads |-> FALSE]
    /\ ppc = [t \in Threads |-> "idle"] /\ pkey = [t \in Threads |-> 0]
    /\ psock = [t \in Threads |-> FALSE] /\ pret = [t \in Threads |-> 0]
    /\ ptarget = [t \in Threads |-> 0] /\ psnap = [t \in Threads |-> {}]
    /\ ptodo = [t \in Threads |-> {}] /\ pdone = [t \in Threads |-> {}]
    /\ pfail = [t \in Threads |-> {}]
    /\ pdisturbed = [t \in Threads |-> FALSE] /\ closed_done = {}
    /\ spared = {}
NoResponse == [code |-> 0, arg_1 |-> 0, arg_2 |-> 0, arg_3 |-> 0]
Unresolved == [kind |-> "unresolved"]
CallIdle ==
    /\ response = NoResponse /\ async = FALSE /\ call_pc = "pending"
    /\ handle = FALSE /\ result_future = Unresolved /\ outcome = Unresolved

\* ============================================================ TChannelOutOps

\* __init__: the handshake runs only if perform_handshake; the two threads
\* are started in either case.
Init ==
    /\ perform_handshake \in BOOLEAN
    /\ state = IF perform_handshake THEN "ready" ELSE "init"
    /\ hs_sent = IF perform_handshake THEN 1 ELSE 0
    /\ outstanding = <<>> /\ id_counter = 0 /\ futures = <<>>
    /\ sender = "check" /\ sreq = 0 /\ receiver = "check"
    /\ sock_open = TRUE /\ wire = <<>> /\ inbound = <<>> /\ answered = {}
    /\ n_spurious = 0
    /\ results = [r \in Threads |-> NoFrame] /\ dequeued = <<>>
    /\ enqueued = <<>>
    /\ pc = [t \in Threads |-> "idle"]
    /\ n_put = 0 /\ n_join = 0 /\ n_sockclose = 0 /\ n_cb = 0
    /\ overlapped = FALSE
    /\ PoolIdle /\ CallIdle

closed == state = "closed"

\* Each application thread makes one call on the connection: handshake(),
\* send() or close(). A thread that has not called yet is "idle"; the other
\* positions are inside a call, or name how the call ended. The call of
\* thread t, if it is a send(), is call t: its future is results[t].
InCloseOrHandshake(t) ==
    pc[t] \in {"hs_await", "cl_mark", "cl_put", "cl_join_s", "cl_sock",
               "cl_join_r", "cl_cb"}

\* A close() or handshake() by t begins while another thread is inside one.
Overlaps(t) == \E u \in Threads \ {t} : InCloseOrHandshake(u)

\* A _next_message_id that forgets the increment.
NextMessageIdStuck(counter) == counter

\* _next_message_id: the counter is incremented and its new value returned.
NextMessageId(counter) == counter + 1

\* -- the sender thread, _start_sender
\* while not self.closed():
SenderCheck ==
    /\ sender = "check"
    /\ sender' = IF closed THEN "exited" ELSE "get"
    /\ UNCHANGED <<perform_handshake, state, outstanding, tableVars, sreq,
                   dequeued, receiver, sock_open, wire, hs_sent, peerVars,
                   results, threadVars, closeCounts>>
    /\ UNCHANGED <<poolVars, callVars>>

\* request = self._outstanding.get(timeout=...); None tells the sender to go
SenderGet ==
    /\ sender = "get"
    /\ outstanding # <<>>
    /\ outstanding' = Tail(outstanding)
    /\ IF Head(outstanding) = None
         THEN /\ sender' = "exited"
              /\ UNCHANGED <<sreq, dequeued>>
         ELSE /\ sender' = "dispatch"
              /\ sreq' = Head(outstanding)
              /\ dequeued' = Append(dequeued, Head(outstanding))
    /\ UNCHANGED <<perform_handshake, state, tableVars, receiver, sock_open,
                   wire, hs_sent, peerVars, results, threadVars, closeCounts>>
    /\ UNCHANGED <<poolVars, callVars>>

\* except queue.Empty: continue
SenderTimeout ==
    /\ sender = "get"
    /\ outstanding = <<>>
    /\ sender' = "check"
    /\ UNCHANGED <<perform_handshake, state, outstanding, tableVars, sreq,
                   dequeued, receiver, sock_open, wire, hs_sent, peerVars,
                   results, threadVars, closeCounts>>
    /\ UNCHANGED <<poolVars, callVars>>

\* msg_id = self._next_message_id(); self._futures[msg_id] = request.future
SenderRegister ==
    /\ sender = "dispatch"
    /\ id_counter' = NextMessageId(id_counter)
    /\ futures' = (id_counter' :> sreq) @@ futures
    /\ sender' = "write"
    /\ UNCHANGED <<perform_handshake, state, outstanding, sreq, dequeued,
                   receiver, sock_open, wire, hs_sent, peerVars, results,
                   threadVars, closeCounts>>
    /\ UNCHANGED <<poolVars, callVars>>

\* self._conn.frame_and_write(msg, message_id=msg_id)
SenderWrite ==
    /\ sender = "write"
    /\ wire' = Append(wire, [id |-> id_counter, call |-> sreq])
    /\ sreq' = 0
    /\ sender' = "check"
    /\ UNCHANGED <<perform_handshake, state, outstanding, tableVars, dequeued,
                   receiver, sock_open, hs_sent, peerVars, results,
                   threadVars, closeCounts>>
    /\ UNCHANGED <<poolVars, callVars>>

\* frame_and_write raises (the message cannot be framed, or the write fails):
\* nothing in _start_sender catches it, so it ends the thread; the request's
\* future is left as it was.
SenderWriteFails ==
    /\ sender = "write"
    /\ sender' = "crashed"
    /\ UNCHANGED <<perform_handshake, state, outstanding, tableVars, sreq,
                   dequeued, receiver, sock_open, wire, hs_sent, peerVars,
                   results, threadVars, closeCounts>>
    /\ UNCHANGED <<poolVars, callVars>>

\* -- the receiver thread, _start_receiver
\* while not self.closed():
ReceiverCheck ==
    /\ receiver = "check"
    /\ receiver' = IF closed THEN "exited" ELSE "await"
    /\ UNCHANGED <<perform_handshake, state, outstanding, tableVars,
                   senderVars, sock_open, wire, hs_sent, peerVars, results,
                   threadVars, closeCounts>>
    /\ UNCHANGED <<poolVars, callVars>>

\* A receiver that hands each frame to the oldest unresolved future, whatever
\* message id the frame bears.
OldestPending(ctx) ==
    LET P == {i \in DOMAIN futures : results[futures[i]] = NoFrame}
    IN IF P = {} THEN ctx.id ELSE CHOOSE i \in P : \A j \in P : i <= j
SetResultOldest(ctx) == [results EXCEPT ![futures[OldestPending(ctx)]] = ctx]

\* self._futures[ctx.message_id].set_result(ctx.message)
SetResult(ctx) == [results EXCEPT ![futures[ctx.id]] = ctx]

\* ctx = self._conn.await() returned a frame. A message id with no entry in
\* self._futures raises KeyError, which ends the thread. A frame that arrived
\* before self._sock.close() may still be handed to a read that is under way
\* when the socket is closed, or the read may fail (ReceiverEnd).
ReceiverDispatch ==
    /\ receiver = "await"
    /\ inbound # <<>>
    /\ inbound' = Tail(inbound)
    /\ IF Head(inbound).id \in DOMAIN futures
         THEN /\ results' = SetResult(Head(inbound))
              /\ receiver' = "check"
         ELSE /\ receiver' = "crashed"
              /\ UNCHANGED results
    /\ UNCHANGED <<perform_handshake, state, outstanding, tableVars,
                   senderVars, sock_open, wire, hs_sent, answered, n_spurious,
                   threadVars, closeCounts>>
    /\ UNCHANGED <<poolVars, callVars>>

\* except socket.timeout: continue
ReceiverTimeout ==
    /\ receiver = "await"
    /\ sock_open
    /\ inbound = <<>>
    /\ receiver' = "check"
    /\ UNCHANGED <<perform_handshake, state, outstanding, tableVars,
                   senderVars, sock_open, wire, hs_sent, peerVars, results,
                   threadVars, closeCounts>>
    /\ UNCHANGED <<poolVars, callVars>>

\* The socket was closed under the read: end of stream (or a socket error);
\* the thread ends either way.
ReceiverEnd ==
    /\ receiver = "await"
    /\ ~sock_open
    /\ receiver' = "exited"
    /\ UNCHANGED <<perform_handshake, state, outstanding, tableVars,
                   senderVars, sock_open, wire, hs_sent, peerVars, results,
                   threadVars, closeCounts>>
    /\ UNCHANGED <<poolVars, callVars>>

\* -- the remote peer
\* It answers a written call frame, in any order, with a frame that bears the
\* request's message id and whose body is the answer to that request.
PeerRespond ==
    /\ sock_open
    /\ \E i \in 1..Len(wire) :
         /\ wire[i].id \notin answered
         /\ inbound' = Append(inbound, [id |-> wire[i].id, body |-> wire[i].call])
         /\ answered' = answered \cup {wire[i].id}
    /\ UNCHANGED <<perform_handshake, state, outstanding, tableVars,
                   senderVars, receiver, sock_open, wire, hs_sent, n_spurious,
                   results, threadVars, closeCounts>>
    /\ UNCHANGED <<poolVars, callVars>>

\* It sends a frame whose message id was never assigned.
SpuriousId == NumThreads + 1
PeerSpurious ==
    /\ sock_open
    /\ n_spurious < MaxSpurious
    /\ n_spurious' = n_spurious + 1
    /\ inbound' = Append(inbound, [id |-> SpuriousId, body |-> 0])
    /\ UNCHANGED <<perform_handshake, state, outstanding, tableVars,
                   senderVars, receiver, sock_open, wire, hs_sent, answered,
                   results, threadVars, closeCounts>>
    /\ UNCHANGED <<poolVars, callVars>>

\* -- handshake(), called by an application thread
\* The assert and the init test read self._state; nothing is sent unless the
\* state is init. (The assert's message reads self.host, which the class
\* never sets: on a closed connection the call raises either way.)
HandshakeCall(t) ==
    /\ pc[t] = "idle"
    /\ IF closed
         THEN /\ pc' = [pc EXCEPT ![t] = "hs_error"]
              /\ UNCHANGED <<hs_sent, overlapped>>
         ELSE IF state # "init"
           THEN /\ pc' = [pc EXCEPT ![t] = "hs_noop"]
                /\ UNCHANGED <<hs_sent, overlapped>>
           ELSE /\ hs_sent' = hs_sent + 1
                /\ pc' = [pc EXCEPT ![t] = "hs_await"]
                /\ overlapped' = (overlapped \/ Overlaps(t))
    /\ UNCHANGED <<perform_handshake, state, outstanding, tableVars,
                   senderVars, receiver, sock_open, wire, peerVars, results,
                   closeCounts, enqueued>>
    /\ UNCHANGED <<poolVars, callVars>>

\* resp = self._conn.await_handshake_reply(); self._state = self.State.ready
HandshakeReply(t) ==
    /\ pc[t] = "hs_await"
    /\ sock_open
    /\ state' = "ready"
    /\ pc' = [pc EXCEPT ![t] = "hs_done"]
    /\ UNCHANGED <<perform_handshake, outstanding, tableVars, senderVars,
                   receiver, sock_open, wire, hs_sent, peerVars, results,
                   overlapped, closeCounts, enqueued>>
    /\ UNCHANGED <<poolVars, callVars>>

\* The socket was closed under the wait: the transport error propagates.
HandshakeFail(t) ==
    /\ pc[t] = "hs_await"
    /\ ~sock_open
    /\ pc' = [pc EXCEPT ![t] = "hs_failed"]
    /\ UNCHANGED <<perform_handshake, state, outstanding, tableVars,
                   senderVars, receiver, sock_open, wire, hs_sent, peerVars,
                   results, overlapped, closeCounts, enqueued>>
    /\ UNCHANGED <<poolVars, callVars>>

\* -- send(), called by an application thread
\* A _submit that puts the request at the front of the queue.
SubmitFront(queue, request) == <<request>> \o queue

\* _submit: self._outstanding.put(self.Request(message, future))
Submit(queue, request) == Append(queue, request)

\* A send() without the assert.
SendCallUnchecked(t) ==
    /\ pc[t] = "idle"
    /\ pc' = [pc EXCEPT ![t] = "send_submit"]
    /\ UNCHANGED <<perform_handshake, state, outstanding, tableVars,
                   senderVars, receiver, sock_open, wire, hs_sent, peerVars,
                   results, overlapped, closeCounts, enqueued>>
    /\ UNCHANGED <<poolVars, callVars>>

\* assert self._state == self.State.ready; then the message and its future
\* are created.
SendCall(t) ==
    /\ pc[t] = "idle"
    /\ pc' = [pc EXCEPT ![t] = IF state # "ready" THEN "usage_error"
                                                  ELSE "send_submit"]
    /\ UNCHANGED <<perform_handshake, state, outstanding, tableVars,
                   senderVars, receiver, sock_open, wire, hs_sent, peerVars,
                   results, overlapped, closeCounts, enqueued>>
    /\ UNCHANGED <<poolVars, callVars>>

\* self._submit(msg, future); the caller then holds the future (async) or
\* waits on it (result_future.result()), which changes nothing here.
SendSubmit(t) ==
    /\ pc[t] = "send_submit"
    /\ outstanding' = Submit(outstanding, t)
    /\ enqueued' = Append(enqueued, t)
    /\ pc' = [pc EXCEPT ![t] = "sent"]
    /\ UNCHANGED <<perform_handshake, state, tableVars, senderVars, receiver,
                   sock_open, wire, hs_sent, peerVars, results, overlapped,
                   closeCounts>>
    /\ UNCHANGED <<poolVars, callVars>>

\* -- close(), called by an application thread
\* A close() without the test of self.closed().
CloseCallUnchecked(t) ==
    /\ pc[t] = "idle"
    /\ pc' = [pc EXCEPT ![t] = "cl_mark"]
    /\ overlapped' = (overlapped \/ Overlaps(t))
    /\ UNCHANGED <<perform_handshake, state, outstanding, tableVars,
                   senderVars, receiver, sock_open, wire, hs_sent, peerVars,
                   results, closeCounts, enqueued>>
    /\ UNCHANGED <<poolVars, callVars>>

\* if self.closed(): return
CloseCall(t) ==
    /\ pc[t] = "idle"
    /\ IF closed
         THEN /\ pc' = [pc EXCEPT ![t] = "close_noop"]
              /\ UNCHANGED overlapped
         ELSE /\ pc' = [pc EXCEPT ![t] = "cl_mark"]
              /\ overlapped' = (overlapped \/ Overlaps(t))
    /\ UNCHANGED <<perform_handshake, state, outstanding, tableVars,
                   senderVars, receiver, sock_open, wire, hs_sent, peerVars,
                   results, closeCounts, enqueued>>
    /\ UNCHANGED <<poolVars, callVars>>

\* self._state = self.State.closed
CloseMark(t) ==
    /\ pc[t] = "cl_mark"
    /\ state' = "closed"
    /\ pc' = [pc EXCEPT ![t] = "cl_put"]
    /\ UNCHANGED <<perform_handshake, outstanding, tableVars, senderVars,
                   receiver, sock_open, wire, hs_sent, peerVars, results,
                   overlapped, closeCounts, enqueued>>
    /\ UNCHANGED <<poolVars, callVars>>

\* A close() that enqueues no poison marker.
ClosePutNothing(t) ==
    /\ pc[t] = "cl_put"
    /\ pc' = [pc EXCEPT ![t] = "cl_join_s"]
    /\ UNCHANGED <<perform_handshake, state, outstanding, tableVars,
                   senderVars, receiver, sock_open, wire, hs_sent, peerVars,
                   results, overlapped, closeCounts, enqueued>>
    /\ UNCHANGED <<poolVars, callVars>>

\* self._outstanding.put(None)
ClosePut(t) ==
    /\ pc[t] = "cl_put"
    /\ outstanding' = Append(outstanding, None)
    /\ n_put' = n_put + 1
    /\ pc' = [pc EXCEPT ![t] = "cl_join_s"]
    /\ UNCHANGED <<perform_handshake, state, tableVars, senderVars, receiver,
                   sock_open, wire, hs_sent, peerVars, results, overlapped,
                   n_join, n_sockclose, n_cb, enqueued>>
    /\ UNCHANGED <<poolVars, callVars>>

\* A close() that goes on to the socket without waiting for the sender.
CloseJoinSenderNoWait(t) ==
    /\ pc[t] = "cl_join_s"
    /\ n_join' = n_join + 1
    /\ pc' = [pc EXCEPT ![t] = "cl_sock"]
    /\ UNCHANGED <<perform_handshake, state, outstanding, tableVars,
                   senderVars, receiver, sock_open, wire, hs_sent, peerVars,
                   results, overlapped, n_put, n_sockclose, n_cb, enqueued>>
    /\ UNCHANGED <<poolVars, callVars>>

\* self._sender.join()
CloseJoinSender(t) ==
    /\ pc[t] = "cl_join_s"
    /\ sender \in {"exited", "crashed"}
    /\ n_join' = n_join + 1
    /\ pc' = [pc EXCEPT ![t] = "cl_sock"]
    /\ UNCHANGED <<perform_handshake, state, outstanding, tableVars,
                   senderVars, receiver, sock_open, wire, hs_sent, peerVars,
                   results, overlapped, n_put, n_sockclose, n_cb, enqueued>>
    /\ UNCHANGED <<poolVars, callVars>>

\* self._sock.close()
CloseSock(t) ==
    /\ pc[t] = "cl_sock"
    /\ sock_open' = FALSE
    /\ n_sockclose' = n_sockclose + 1
    /\ pc' = [pc EXCEPT ![t] = "cl_join_r"]
    /\ UNCHANGED <<perform_handshake, state, outstanding, tableVars,
                   senderVars, receiver, wire, hs_sent, peerVars, results,
                   overlapped, n_put, n_join, n_cb, enqueued>>
    /\ UNCHANGED <<poolVars, callVars>>

\* A close() that goes on to the callback without waiting for the receiver.
CloseJoinReceiverNoWait(t) ==
    /\ pc[t] = "cl_join_r"
    /\ pc' = [pc EXCEPT ![t] = "cl_cb"]
    /\ UNCHANGED <<perform_handshake, state, outstanding, tableVars,
                   senderVars, receiver, sock_open, wire, hs_sent, peerVars,
                   results, overlapped, closeCounts, enqueued>>
    /\ UNCHANGED <<poolVars, callVars>>

\* self._receiver.join()
CloseJoinReceiver(t) ==
    /\ pc[t] = "cl_join_r"
    /\ receiver \in {"exited", "crashed"}
    /\ pc' = [pc EXCEPT ![t] = "cl_cb"]
    /\ UNCHANGED <<perform_handshake, state, outstanding, tableVars,
                   senderVars, receiver, sock_open, wire, hs_sent, peerVars,
                   results, overlapped, closeCounts, enqueued>>
    /\ UNCHANGED <<poolVars, callVars>>

\* self._on_close(self)
CloseCallback(t) ==
    /\ pc[t] = "cl_cb"
    /\ n_cb' = n_cb + 1
    /\ pc' = [pc EXCEPT ![t] = "close_done"]
    /\ UNCHANGED <<perform_handshake, state, outstanding, tableVars,
                   senderVars, receiver, sock_open, wire, hs_sent, peerVars,
                   results, overlapped, n_put, n_join, n_sockclose, enqueued>>
    /\ UNCHANGED <<poolVars, callVars>>

Next ==
    \/ SenderCheck \/ SenderGet \/ SenderTimeout \/ SenderRegister
    \/ SenderWrite \/ SenderWriteFails
    \/ ReceiverCheck \/ ReceiverDispatch \/ ReceiverTimeout \/ ReceiverEnd
    \/ PeerRespond \/ PeerSpurious
    \/ \E t \in Threads :
         \/ HandshakeCall(t) \/ HandshakeReply(t) \/ HandshakeFail(t)
         \/ SendCall(t) \/ SendSubmit(t)
         \/ CloseCall(t) \/ CloseMark(t) \/ ClosePut(t)
         \/ CloseJoinSender(t) \/ CloseSock(t) \/ CloseJoinReceiver(t)
         \/ CloseCallback(t)

Spec == Init /\ [][Next]_vars

\* Fair scheduling: a thread that can take a step eventually takes one. The
\* waits of the two loops are bounded (the queue's get and the socket's read
\* time out), so each loop always has a step to take until it has ended; the
\* steps of close() are the marker's put, the two joins, the socket's close
\* and the callback. Nothing is assumed of the peer or of the callers of
\* send() and handshake().
SenderStep ==
    \/ SenderCheck \/ SenderGet \/ SenderTimeout \/ SenderRegister
    \/ SenderWrite \/ SenderWriteFails
ReceiverStep ==
    ReceiverCheck \/ ReceiverDispatch \/ ReceiverTimeout \/ ReceiverEnd
CloseStep(t) ==
    \/ CloseMark(t) \/ ClosePut(t) \/ CloseJoinSender(t) \/ CloseSock(t)
    \/ CloseJoinReceiver(t) \/ CloseCallback(t)
Fairness ==
    /\ WF_vars(SenderStep)
    /\ WF_vars(ReceiverStep)
    /\ \A t \in Threads : WF_vars(CloseStep(t))

SpecLive == Init /\ [][Next]_vars /\ Fairness

\* ========================================================== OutgoingTChannel
\* Each registry thread makes one call: request(host, port), close() of a
\* connection of the registry, or the registry's close(). Connection c is the
\* one built on the socket that thread c's request opened; pkey[c] is its key.

InitPool ==
    /\ connections = [k \in Keys |-> 0] /\ lock = 0
    /\ conn_state = [c \in Threads |-> "none"]
    /\ sock_closed = [c \in Threads |-> FALSE]
    /\ ppc = [t \in Threads |-> "idle"] /\ pkey = [t \in Threads |-> 0]
    /\ psock = [t \in Threads |-> FALSE] /\ pret = [t \in Threads |-> 0]
    /\ ptarget = [t \in Threads |-> 0] /\ psnap = [t \in Threads |-> {}]
    /\ ptodo = [t \in Threads |-> {}] /\ pdone = [t \in Threads |-> {}]
    /\ pfail = [t \in Threads |-> {}]
    /\ pdisturbed = [t \in Threads |-> FALSE] /\ closed_done = {}
    /\ spared = {}
    /\ ConnIdle /\ CallIdle

regVars == <<psnap, ptodo, pdone, pfail, pdisturbed>>

InRequest(t) ==
    ppc[t] \in {"req_connect", "req_lock", "req_locked", "req_construct"}
InClose(t) == ppc[t] \in {"cl_mark", "cl_io", "cl_cb"}
\* The thread is inside the registry's close(), between two connections or
\* in the close() of one.
InRegistryClose(t) ==
    ppc[t] = "rc_loop" \/ (InClose(t) /\ psnap[t] # {})

\* -- _get_connection
\* conn = self._connections.get((host, port)); if conn: return conn
RequestCall(t, k) ==
    /\ ppc[t] = "idle"
    /\ pkey' = [pkey EXCEPT ![t] = k]
    /\ IF connections[k] # 0
         THEN /\ pret' = [pret EXCEPT ![t] = connections[k]]
              /\ ppc' = [ppc EXCEPT ![t] = "req_done"]
         ELSE /\ ppc' = [ppc EXCEPT ![t] = "req_connect"]
              /\ UNCHANGED pret
    /\ pdisturbed' = [u \in Threads |->
                        pdisturbed[u] \/ InRegistryClose(u)]
    /\ UNCHANGED <<connections, lock, conn_state, sock_closed, psock,
                   ptarget, psnap, ptodo, pdone, pfail, closed_done, spared>>
    /\ UNCHANGED <<connVars, callVars>>

\* sock = socket.socket(...); sock.connect((host, port)); sock.settimeout(...)
RequestConnect(t) ==
    /\ ppc[t] = "req_connect"
    /\ psock' = [psock EXCEPT ![t] = TRUE]
    /\ ppc' = [ppc EXCEPT ![t] = "req_lock"]
    /\ UNCHANGED <<connections, lock, conn_state, sock_closed, pkey, pret,
                   ptarget, regVars, closed_done, spared>>
    /\ UNCHANGED <<connVars, callVars>>

\* with self._lock:
RequestAcquire(t) ==
    /\ ppc[t] = "req_lock"
    /\ lock = 0
    /\ lock' = t
    /\ ppc' = [ppc EXCEPT ![t] = "req_locked"]
    /\ UNCHANGED <<connections, conn_state, sock_closed, pkey, psock, pret,
                   ptarget, regVars, closed_done, spared>>
    /\ UNCHANGED <<connVars, callVars>>

\* A _get_connection that does not look at the map again under the lock.
RequestLockedNoRecheck(t) ==
    /\ ppc[t] = "req_locked"
    /\ ppc' = [ppc EXCEPT ![t] = "req_construct"]
    /\ UNCHANGED <<connections, lock, conn_state, sock_closed, pkey, psock,
                   pret, ptarget, regVars, closed_done, spared>>
    /\ UNCHANGED <<connVars, callVars>>

\* if (host, port) in self._connections: sock.close(); return the entry.
\* Otherwise TChannelOutOps(...) is constructed, still under the lock.
RequestLocked(t) ==
    /\ ppc[t] = "req_locked"
    /\ IF connections[pkey[t]] # 0
         THEN /\ sock_closed' = [sock_closed EXCEPT ![t] = TRUE]
              /\ pret' = [pret EXCEPT ![t] = connections[pkey[t]]]
              /\ lock' = 0
              /\ ppc' = [ppc EXCEPT ![t] = "req_done"]
         ELSE /\ ppc' = [ppc EXCEPT ![t] = "req_construct"]
              /\ UNCHANGED <<sock_closed, pret, lock>>
    /\ UNCHANGED <<connections, conn_state, pkey, psock, ptarget, regVars,
                   closed_done, spared>>
    /\ UNCHANGED <<connVars, callVars>>

\* TChannelOutOps.__init__ has done its handshake and started its threads;
\* the connection is stored in the map, the lock released, and it is returned.
RequestInstall(t) ==
    /\ ppc[t] = "req_construct"
    /\ conn_state' = [conn_state EXCEPT ![t] = "ready"]
    /\ connections' = [connections EXCEPT ![pkey[t]] = t]
    /\ lock' = 0
    /\ pret' = [pret EXCEPT ![t] = t]
    /\ ppc' = [ppc EXCEPT ![t] = "req_done"]
    /\ UNCHANGED <<sock_closed, pkey, psock, ptarget, regVars, closed_done,
                   spared>>
    /\ UNCHANGED <<connVars, callVars>>

\* -- TChannelOutOps.close() on a connection of the registry
\* Where a close() goes when it is over: back into the registry's loop, or
\* back to its caller.
AfterClose(t, ended) == IF psnap[t] # {} THEN "rc_loop" ELSE ended

\* if self.closed(): return
PoolCloseCall(t, c) ==
    /\ ppc[t] = "idle"
    /\ conn_state[c] # "none"
    /\ ptarget' = [ptarget EXCEPT ![t] = c]
    /\ ppc' = [ppc EXCEPT ![t] = IF conn_state[c] = "closed"
                                   THEN "close_noop" ELSE "cl_mark"]
    /\ UNCHANGED <<connections, lock, conn_state, sock_closed, pkey, psock,
                   pret, regVars, closed_done, spared>>
    /\ UNCHANGED <<connVars, callVars>>

\* self._state = self.State.closed
PoolCloseMark(t) ==
    /\ ppc[t] = "cl_mark"
    /\ conn_state' = [conn_state EXCEPT ![ptarget[t]] = "closed"]
    /\ ppc' = [ppc EXCEPT ![t] = "cl_io"]
    /\ UNCHANGED <<connections, lock, sock_closed, pkey, psock, pret,
                   ptarget, regVars, closed_done, spared>>
    /\ UNCHANGED <<connVars, callVars>>

\* The poison marker, the join of the sender, self._sock.close() and the join
\* of the receiver.
PoolCloseIO(t) ==
    /\ ppc[t] = "cl_io"
    /\ sock_closed' = [sock_closed EXCEPT ![ptarget[t]] = TRUE]
    /\ ppc' = [ppc EXCEPT ![t] = "cl_cb"]
    /\ UNCHANGED <<connections, lock, conn_state, pkey, psock, pret,
                   ptarget, regVars, closed_done, spared>>
    /\ UNCHANGED <<connVars, callVars>>

\* A registry close() that gives up at the first socket.error.
RemainingAfterErrorNone(todo) == {}

\* except socket.error: pass -- the loop goes on with the connections left.
RemainingAfterError(todo) == todo

\* self._sock.close() raises socket.error: close() ends there, the receiver
\* not joined and the callback not invoked. A direct caller gets the error;
\* the registry's close() catches it.
PoolCloseError(t) ==
    /\ ppc[t] = "cl_io"
    /\ IF psnap[t] # {}
         THEN /\ pfail' = [pfail EXCEPT ![t] = @ \cup {ptarget[t]}]
              /\ ptodo' = [ptodo EXCEPT ![t] = RemainingAfterError(@)]
              /\ ppc' = [ppc EXCEPT ![t] = "rc_loop"]
         ELSE /\ ppc' = [ppc EXCEPT ![t] = "close_raised"]
              /\ UNCHANGED <<pfail, ptodo>>
    /\ UNCHANGED <<connections, lock, conn_state, sock_closed, pkey, psock,
                   pret, ptarget, psnap, pdone, pdisturbed, closed_done,
                   spared>>
    /\ UNCHANGED <<connVars, callVars>>

\* An _on_conn_close that deletes whatever the key maps to.
OnConnCloseByKey(conns, k, c) == [conns EXCEPT ![k] = 0]

\* An _on_conn_close that deletes nothing.
OnConnCloseKeeps(conns, k, c) == conns

\* _on_conn_close, under the lock: the entry for the key is deleted if it is
\* this very connection.
OnConnClose(conns, k, c) ==
    IF conns[k] # 0 /\ conns[k] = c THEN [conns EXCEPT ![k] = 0] ELSE conns

\* self._on_close(self), which takes the lock; close() then returns.
PoolCloseCallback(t) ==
    /\ ppc[t] = "cl_cb"
    /\ lock = 0
    /\ connections' = OnConnClose(connections, pkey[ptarget[t]], ptarget[t])
    /\ closed_done' = closed_done \cup {ptarget[t]}
    /\ spared' = spared \cup
                   ({connections[pkey[ptarget[t]]]} \ {0, ptarget[t]})
    /\ pdone' = [pdone EXCEPT ![t] =
                   IF psnap[t] # {} THEN @ \cup {ptarget[t]} ELSE @]
    /\ ppc' = [ppc EXCEPT ![t] = AfterClose(t, "close_done")]
    /\ UNCHANGED <<lock, conn_state, sock_closed, pkey, psock, pret, ptarget,
                   psnap, ptodo, pfail, pdisturbed>>
    /\ UNCHANGED <<connVars, callVars>>

\* -- OutgoingTChannel.close()
\* for conn in self._connections.values(): the list is made once, here.
RegistryCloseCall(t) ==
    /\ ppc[t] = "idle"
    /\ LET snap == {connections[k] : k \in Keys} \ {0}
       IN /\ psnap' = [psnap EXCEPT ![t] = snap]
          /\ ptodo' = [ptodo EXCEPT ![t] = snap]
          /\ ppc' = [ppc EXCEPT ![t] = IF snap = {} THEN "rc_done"
                                                      ELSE "rc_loop"]
    /\ pdisturbed' = [pdisturbed EXCEPT ![t] =
                        \E u \in Threads : InRequest(u)]
    /\ UNCHANGED <<connections, lock, conn_state, sock_closed, pkey, psock,
                   pret, ptarget, pdone, pfail, closed_done, spared>>
    /\ UNCHANGED <<connVars, callVars>>

\* conn.close() for the next connection of the list, up to its test of
\* closed().
RegistryCloseNext(t) ==
    /\ ppc[t] = "rc_loop"
    /\ \E c \in ptodo[t] :
         /\ ptodo' = [ptodo EXCEPT ![t] = @ \ {c}]
         /\ ptarget' = [ptarget EXCEPT ![t] = c]
         /\ ppc' = [ppc EXCEPT ![t] = IF conn_state[c] = "closed"
                                        THEN "rc_loop" ELSE "cl_mark"]
    /\ UNCHANGED <<connections, lock, conn_state, sock_closed, pkey, psock,
                   pret, psnap, pdone, pfail, pdisturbed, closed_done, spared>>
    /\ UNCHANGED <<connVars, callVars>>

\* The list is exhausted: close() returns.
RegistryCloseReturn(t) ==
    /\ ppc[t] = "rc_loop"
    /\ ptodo[t] = {}
    /\ ppc' = [ppc EXCEPT ![t] = "rc_done"]
    /\ UNCHANGED <<connections, lock, conn_state, sock_closed, pkey, psock,
                   pret, ptarget, regVars, closed_done, spared>>
    /\ UNCHANGED <<connVars, callVars>>

NextPool ==
    \E t \in Threads :
       \/ \E k \in Keys : RequestCall(t, k)
       \/ RequestConnect(t) \/ RequestAcquire(t) \/ RequestLocked(t)
       \/ RequestInstall(t)
       \/ \E c \in Threads : PoolCloseCall(t, c)
       \/ PoolCloseMark(t) \/ PoolCloseIO(t) \/ PoolCloseError(t)
       \/ PoolCloseCallback(t)
       \/ RegistryCloseCall(t) \/ RegistryCloseNext(t)
       \/ RegistryCloseReturn(t)

SpecPool == InitPool /\ [][NextPool]_vars

\* -- request() and close() calls alone, a thread being allowed a second
\* call: it closes the connection its request() returned.
\* Threads that, their request() having returned, went on to close the
\* connection it gave them.
FollowUps == {t \in Threads : pkey[t] # 0 /\ ptarget[t] # 0}

\* conn = tchannel.request(host, port) ... conn.close(), up to the test of
\* closed().
PoolCloseFollowUp(t) ==
    /\ ppc[t] = "req_done"
    /\ Cardinality(FollowUps) < MaxFollowUps
    /\ ptarget' = [ptarget EXCEPT ![t] = pret[t]]
    /\ ppc' = [ppc EXCEPT ![t] = IF conn_state[pret[t]] = "closed"
                                   THEN "close_noop" ELSE "cl_mark"]
    /\ UNCHANGED <<connections, lock, conn_state, sock_closed, pkey, psock,
                   pret, regVars, closed_done, spared>>
    /\ UNCHANGED <<connVars, callVars>>

NextEvict ==
    \E t \in Threads :
       \/ \E k \in Keys : RequestCall(t, k)
       \/ RequestConnect(t) \/ RequestAcquire(t) \/ RequestLocked(t)
       \/ RequestInstall(t)
       \/ \E c \in Threads : PoolCloseCall(t, c)
       \/ PoolCloseFollowUp(t)
       \/ PoolCloseMark(t) \/ PoolCloseIO(t) \/ PoolCloseError(t)
       \/ PoolCloseCallback(t)

SpecEvict == InitPool /\ [][NextEvict]_vars

\* ================================================ claims on TChannelOutOps

\* C2. Out-of-order resolution: a future is resolved only by the receiver
\* taking the oldest frame that has arrived and not been read, so futures are
\* resolved in the order their frames arrive, whatever the order of the
\* requests; the future resolved is the one of the request whose call frame
\* was written with the message id the arriving frame bears, it is resolved
\* with that very frame, and no other future changes in the step.
C2_OutOfOrderResolution ==
    [][\A r \in Threads :
         results'[r] # results[r] =>
           /\ inbound # <<>>
           /\ inbound' = Tail(inbound)
           /\ results'[r] = Head(inbound)
           /\ \E i \in 1..Len(wire) :
                wire[i].call = r /\ wire[i].id = Head(inbound).id
           /\ \A q \in Threads \ {r} : results'[q] = results[q]]_vars

\* Calls with ids a < b are in flight, the answer to b arrived first and has
\* resolved b's future, while a's future is unresolved with its answer next
\* in the stream.
C2_Witness ==
    \E a, b \in DOMAIN futures :
        /\ a < b
        /\ results[futures[b]] = [id |-> b, body |-> futures[b]]
        /\ results[futures[a]] = NoFrame
        /\ inbound # <<>>
        /\ Head(inbound) = [id |-> a, body |-> futures[a]]

\* C3. Identifier uniqueness: the k-th request the sender dequeues is
\* registered under message id k, counting from 1; the ids in use are exactly
\* 1..id_counter, distinct requests hold distinct ids, and the ids of the
\* frames on the wire strictly increase.
C3_IdentifierUniqueness ==
    /\ DOMAIN futures = 1..id_counter
    /\ \A k \in DOMAIN futures : k <= Len(dequeued) /\ futures[k] = dequeued[k]
    /\ Len(dequeued) \in {id_counter, id_counter + 1}
    /\ \A i, j \in DOMAIN futures : i # j => futures[i] # futures[j]
    /\ \A i, j \in 1..Len(wire) : i < j => wire[i].id < wire[j].id
    /\ \A i \in 1..Len(wire) : wire[i].id = i /\ futures[i] = wire[i].call

\* Two calls from different threads have been given ids 1 and 2 and written.
C3_Witness ==
    /\ id_counter >= 2
    /\ Len(wire) >= 2
    /\ futures[1] # futures[2]

\* C4. Usage error outside ready: a send() that finds the state init or
\* closed raises at once, creates no future and leaves the outbound queue
\* and the pending-call table as they were; the call that raised is never
\* queued, dequeued or written afterwards.
C4_UsageErrorOutsideReady ==
    [][/\ \A t \in Threads :
            (/\ pc[t] = "idle"
             /\ pc'[t] \in {"usage_error", "send_submit"}
             /\ state # "ready")
            => /\ pc'[t] = "usage_error"
               /\ outstanding' = outstanding
               /\ futures' = futures
               /\ results' = results
       /\ \A t \in Threads :
            pc'[t] = "usage_error" =>
              /\ \A i \in 1..Len(outstanding') : outstanding'[i] # t
              /\ \A i \in 1..Len(dequeued') : dequeued'[i] # t
              /\ \A i \in 1..Len(wire') : wire'[i].call # t]_vars

\* A send() raised on a connection that a completed close() had closed.
C4_Witness ==
    \E t \in Threads :
        /\ pc[t] = "usage_error"
        /\ state = "closed"
        /\ n_cb = 1
        /\ outstanding = <<>>

\* C5. Idempotent close: a close() that finds the state closed returns
\* without changing anything: no poison marker, no join, no socket close, no
\* callback; and as long as no close() or handshake() began while another was
\* still running (the calls form a sequence), the poison marker is enqueued,
\* the sender joined, the socket closed and the callback invoked at most once.
C5_IdempotentClose ==
    [][/\ \A t \in Threads :
            (/\ pc[t] = "idle"
             /\ pc'[t] \in {"close_noop", "cl_mark"}
             /\ closed)
            => /\ pc'[t] = "close_noop"
               /\ UNCHANGED <<state, outstanding, sender, receiver,
                              sock_open, closeCounts>>
       /\ ~overlapped' =>
            n_put' <= 1 /\ n_join' <= 1 /\ n_sockclose' <= 1 /\ n_cb' <= 1]_vars

\* A second close() returned as a no-op after a first one had run to its
\* callback, the two not overlapping.
C5_Witness ==
    \E t, u \in Threads :
        /\ pc[t] = "close_noop"
        /\ pc[u] = "close_done"
        /\ ~overlapped
        /\ n_cb = 1 /\ n_join = 1

\* C6. Idempotent handshake, the clause that fails: over the life of a
\* connection at most one handshake frame is sent. (The other clauses hold:
\* handshake() on a ready connection sends nothing and leaves it ready, and
\* on a closed one raises without sending.)
C6_AtMostOneHandshakeFrame == hs_sent <= 1

\* C7. The connection state only moves forward: never from closed to ready
\* or init, never from ready to init.
C7_ForwardOnly ==
    [][/\ state = "closed" => state' = "closed"
       /\ state = "ready" => state' # "init"]_vars

\* The thread has ended: the loop was left, or an exception ended it.
Ended(thread) == thread \in {"exited", "crashed"}

\* C11. Close protocol ordering: a close() that found the connection not yet
\* closed has set the state to closed before it enqueues the poison marker
\* (the state stays closed unless a racing handshake() overwrote it), has
\* enqueued the marker before the sender's exit lets it past the join, has
\* seen the sender exit before it closes the socket, has closed the socket
\* before the receiver's exit lets it past the second join, and invokes the
\* callback last. So whenever the socket is closed the sender, the only
\* writer of call frames, has ended and writes no more, and both loops have
\* exited whenever the callback has run or such a close() has returned.
C11_CloseProtocolOrdering ==
    /\ \A t \in Threads :
         /\ pc[t] \in {"cl_put", "cl_join_s", "cl_sock", "cl_join_r",
                       "cl_cb", "close_done"} =>
               state = "closed" \/ \E u \in Threads : pc[u] = "hs_done"
         /\ pc[t] \in {"cl_join_s", "cl_sock", "cl_join_r", "cl_cb",
                       "close_done"} => n_put >= 1
         /\ pc[t] \in {"cl_sock", "cl_join_r", "cl_cb", "close_done"} =>
               Ended(sender) /\ n_join >= 1
         /\ pc[t] \in {"cl_join_r", "cl_cb", "close_done"} =>
               ~sock_open /\ n_sockclose >= 1
         /\ pc[t] \in {"cl_cb", "close_done"} => Ended(receiver)
         /\ pc[t] = "close_done" => n_cb >= 1
    /\ ~sock_open => Ended(sender) /\ sender # "write" /\ n_put >= 1
    /\ n_cb >= 1 => Ended(sender) /\ Ended(receiver) /\ ~sock_open

\* A close() of a connection that had written a frame has returned: the
\* callback has run once, the socket is closed and both threads have left
\* their loops.
C11_Witness ==
    \E t \in Threads :
        /\ pc[t] = "close_done"
        /\ Len(wire) >= 1
        /\ n_cb = 1 /\ n_put = 1
        /\ sender = "exited" /\ receiver = "exited"
        /\ ~sock_open

\* No thread has called handshake(): the constructor did the handshake and
\* the calls made since are send() and close() only.
NoHandshakeCalls ==
    /\ perform_handshake
    /\ \A t \in Threads :
         pc[t] \notin {"hs_error", "hs_noop", "hs_await", "hs_done",
                       "hs_failed"}

\* C12. No dispatch outside ready: in runs of send(), close() and the sender
\* loop alone, the sender assigns a message id and writes a call frame only
\* while the state is ready, and once the state is closed no request is put
\* on the outbound queue.
C12_NoDispatchOutsideReady ==
    [][NoHandshakeCalls =>
         /\ id_counter' # id_counter => state = "ready"
         /\ wire' # wire => state = "ready"
         /\ enqueued' # enqueued => state # "closed"]_vars

\* C13. The loops start only after a successful handshake: while the state
\* is init neither the sender nor the receiver thread is running, and the
\* receiver is never reading from the socket while a handshake() waits for
\* the peer's reply.
C13_LoopsStartAfterHandshake ==
    /\ state = "init" => Ended(sender) /\ Ended(receiver)
    /\ ~(receiver = "await" /\ \E t \in Threads : pc[t] = "hs_await")

\* C14. A spurious frame is dropped: when the receiver takes a frame whose
\* message id has no entry in self._futures, no future is resolved and the
\* receiver goes on with its loop, so that later frames are still dispatched.
C14_SpuriousFrameDropped ==
    [][(/\ inbound # <<>> /\ inbound' = Tail(inbound)
        /\ Head(inbound).id \notin DOMAIN futures) =>
         /\ results' = results
         /\ receiver' = "check"]_vars

\* C15. An encoding error fails the future, not the loop: when the sender's
\* frame_and_write of a dequeued request ends without the frame written, the
\* future of that request is completed (with the failure) and the sender
\* goes back to the top of its loop.
C15_EncodingErrorFailsFuture ==
    [][(sender = "write" /\ sender' # "write" /\ wire' = wire) =>
         /\ results'[sreq] # results[sreq]
         /\ sender' = "check"]_vars

\* C16. FIFO wire order: after every step that puts a request on the
\* outbound queue or writes a frame, of two requests put on the queue one
\* before the other, if both are written the frame of the first is written
\* first and bears the smaller message id; and a call frame is written only
\* by the sender thread, one frame per step, for the request it has dequeued.
C16_FifoWireOrder ==
    [][/\ (wire' # wire \/ enqueued' # enqueued) =>
            \A i, j \in DOMAIN enqueued' : \A a, b \in DOMAIN wire' :
              (i < j /\ wire'[a].call = enqueued'[i]
                     /\ wire'[b].call = enqueued'[j]) =>
                a < b /\ wire'[a].id < wire'[b].id
       /\ wire' # wire =>
            /\ sender = "write" /\ sender' = "check"
            /\ wire' = Append(wire, [id |-> id_counter, call |-> sreq])
            /\ pc' = pc]_vars

\* Thread 2's request was put on the queue before thread 1's, and both were
\* written: thread 2's frame first with id 1, thread 1's next with id 2.
C16_Witness ==
    /\ Len(enqueued) >= 2 /\ Len(wire) >= 2
    /\ enqueued[1] = 2 /\ enqueued[2] = 1
    /\ wire[1] = [id |-> 1, call |-> 2]
    /\ wire[2] = [id |-> 2, call |-> 1]

\* The thread is inside a close() that found the connection not yet closed.
InCloseCall(t) ==
    pc[t] \in {"cl_mark", "cl_put", "cl_join_s", "cl_sock", "cl_join_r",
               "cl_cb"}

\* C17 as stated: once any close() has returned, also one that found the
\* connection already closed and returned at once, no future changes.
C17_NoChangeAfterAnyClose ==
    [][(\E t \in Threads : pc[t] \in {"close_done", "close_noop"}) =>
         results' = results]_vars

\* C17, amended. Leak on close: no step of a close() resolves or fails a
\* future, and once a close() that itself closed the connection (it found it
\* not yet closed) has returned, no future changes any more: the calls
\* unresolved then stay unresolved.
C17_LeakOnClose ==
    [][/\ (\E t \in Threads : pc[t] = "close_done") => results' = results
       /\ \A t \in Threads :
            (pc'[t] # pc[t] /\ (InCloseCall(t) \/ pc'[t] = "close_noop"
                                               \/ pc'[t] = "cl_mark")) =>
              results' = results]_vars

\* A close() has returned while a written call is unresolved, its answer
\* having arrived and never been read.
C17_Witness ==
    \E t \in Threads : \E r \in Threads :
        /\ pc[t] = "close_done"
        /\ \E i \in DOMAIN wire : wire[i].call = r
        /\ results[r] = NoFrame
        /\ \E i \in DOMAIN inbound : inbound[i].body = r

\* C18. Close terminates: under fair scheduling, a close() that found the
\* connection not yet closed (ready, or still init) eventually returns, with
\* the sender and the receiver ended and the callback invoked, whatever is
\* queued or in flight and whatever the peer does.
C18_CloseTerminates ==
    \A t \in Threads :
        (pc[t] = "cl_mark") ~>
            (/\ pc[t] = "close_done"
             /\ Ended(sender) /\ Ended(receiver)
             /\ n_cb >= 1)

\* A close() of a ready connection has returned with both threads ended
\* while one request was in flight, written and never answered, and another
\* was still on the queue.
C18_Witness ==
    \E t \in Threads :
        /\ perform_handshake
        /\ pc[t] = "close_done"
        /\ Ended(sender) /\ Ended(receiver)
        /\ \E i \in DOMAIN wire : wire[i].id \notin answered
        /\ \E i \in DOMAIN outstanding : outstanding[i] # None

\* ============================================== claims on OutgoingTChannel

\* C1. Pool exactly-once: for a key none of whose connections has been
\* closed, however the requests for it interleave, at most one connection is
\* ever constructed; every request that has returned was given the connection
\* that is in the map for the key; a caller that opened a socket and was not
\* the one to install has closed its socket, and the installed socket is open.
C1_PoolExactlyOnce ==
    \A k \in Keys :
      (\A c \in Threads : pkey[c] = k => conn_state[c] # "closed") =>
        /\ Cardinality({c \in Threads :
                          pkey[c] = k /\ conn_state[c] # "none"}) <= 1
        /\ \A t \in Threads :
             (ppc[t] = "req_done" /\ pkey[t] = k) =>
               /\ connections[k] # 0
               /\ pret[t] = connections[k]
               /\ conn_state[pret[t]] = "ready"
               /\ (psock[t] /\ pret[t] # t) => sock_closed[t]
               /\ pret[t] = t => ~sock_closed[t]

\* Two requests for one key both got past the unlocked lookup and opened a
\* socket; one installed its connection, the other closed its socket and
\* returned the installed connection.
C1_Witness ==
    \E k \in Keys : \E t, u \in Threads :
        /\ t # u
        /\ pkey[t] = k /\ pkey[u] = k
        /\ ppc[t] = "req_done" /\ ppc[u] = "req_done"
        /\ psock[t] /\ psock[u]
        /\ connections[k] = t
        /\ pret[t] = t /\ pret[u] = t
        /\ sock_closed[u] /\ ~sock_closed[t]

\* C9 as stated: once a close() of connection C has returned, whether it
\* closed C itself or found it closed, C is not in the map.
C9_GoneOnceAnyCloseReturned ==
    \A t \in Threads :
        ppc[t] \in {"close_done", "close_noop"} =>
          connections[pkey[ptarget[t]]] # ptarget[t]

\* C9, amended. No resurrection: once a close() that itself closed C (it
\* found C not yet closed) has returned, C is not in the map and never again
\* is; no request that reads the map from then on returns C; a request that
\* returns a connection returns one that has been constructed, its own fresh
\* one or the one in the map.
C9_NoResurrection ==
    [][/\ \A c \in closed_done' : connections'[pkey'[c]] # c
       /\ \A t \in Threads :
            pret'[t] # pret[t] =>
              /\ pret'[t] \notin closed_done
              /\ conn_state'[pret'[t]] # "none"
              /\ pret'[t] = connections'[pkey'[t]]]_vars

\* C was closed by a close() that has returned; a later request for C's key
\* opened a new socket and installed and returned a fresh connection.
C9_Witness ==
    \E c \in closed_done : \E t \in Threads \ {c} :
        /\ pkey[t] = pkey[c]
        /\ ppc[t] = "req_done"
        /\ psock[t] /\ ~sock_closed[t]
        /\ pret[t] = t
        /\ connections[pkey[c]] = t
        /\ conn_state[t] = "ready" /\ conn_state[c] = "closed"

\* C10 as stated: at the step by which the registry's close() returns, with
\* no failure and no request() concurrent with it, every connection of its
\* list is closed and the map is empty.
C10_CloseAllEmptiesMap ==
    [][\A t \in Threads :
         (ppc[t] # "rc_done" /\ ppc'[t] = "rc_done"
            /\ pfail'[t] = {} /\ ~pdisturbed'[t]) =>
           /\ \A c \in psnap'[t] : conn_state'[c] = "closed"
           /\ \A k \in Keys : connections'[k] = 0]_vars

\* C10, amended. At the step by which the registry's close() returns,
\* close() has been invoked on every connection that was in the map when it
\* was called, a socket.error from one of them notwithstanding, so each is in
\* state closed; and if none failed, no request() ran concurrently and every
\* one of them was closed by this call itself (none was found already closed
\* by a close() elsewhere), the map is empty.
C10_CloseAll ==
    [][\A t \in Threads :
         (ppc[t] # "rc_done" /\ ppc'[t] = "rc_done") =>
           /\ \A c \in psnap'[t] : conn_state'[c] = "closed"
           /\ (pfail'[t] = {} /\ ~pdisturbed'[t] /\ pdone'[t] = psnap'[t]) =>
                \A k \in Keys : connections'[k] = 0]_vars

\* The registry's close() has returned after closing, itself and without
\* failure, the two connections that were in the map; the map is empty.
C10_Witness ==
    \E t \in Threads :
        /\ ppc[t] = "rc_done"
        /\ Cardinality(psnap[t]) >= 2
        /\ pdone[t] = psnap[t]
        /\ pfail[t] = {} /\ ~pdisturbed[t]
        /\ \A k \in Keys : connections[k] = 0

\* C19. The registry lock is never held across blocking network I/O: no
\* thread holds the lock while its socket connect or its handshake exchange
\* is under way.
C19_NoNetworkIOUnderLock ==
    \A t \in Threads :
        ppc[t] \in {"req_connect", "req_construct"} => lock # t

\* C20. Eviction removes only the closing connection: an entry of the map
\* goes away only by the close callback of the very connection it holds, for
\* that connection's key; and a step of the callback of C for key k leaves
\* every entry as it was except that the entry for k is deleted when it is C
\* itself: a newer connection under k, and the other keys, stay.
C20_EvictsOnlyItself ==
    [][/\ \A k \in Keys :
            (connections[k] # 0 /\ connections'[k] # connections[k]) =>
              /\ connections'[k] = 0
              /\ \E t \in Threads :
                   /\ ppc[t] = "cl_cb" /\ ppc'[t] # "cl_cb"
                   /\ ptarget[t] = connections[k]
                   /\ pkey[ptarget[t]] = k
       /\ \A t \in Threads :
            (ppc[t] = "cl_cb" /\ ppc'[t] # "cl_cb") =>
              \A k \in Keys :
                connections'[k] =
                  IF k = pkey[ptarget[t]] /\ connections[k] = ptarget[t]
                    THEN 0 ELSE connections[k]]_vars

\* Two close() calls on C overlapped; the callback of the first evicted C, a
\* request for the same key installed the newer D, and the callback of the
\* second found D under the key and left it there.
C20_Witness ==
    \E c \in closed_done : \E d \in spared :
        /\ d # c /\ pkey[d] = pkey[c]
        /\ connections[pkey[c]] = d
        /\ conn_state[d] = "ready"
        /\ \E t, u \in Threads :
             /\ t # u
             /\ ptarget[t] = c /\ ptarget[u] = c
             /\ ppc[t] = "close_done" /\ ppc[u] = "close_done"

\* ===================================================== send(): the response
\* One call whose future the receiver resolves with a response
\* (statusCode, arg_1, arg_2, arg_3), in blocking or deferred (async) mode.

Codes == 0..MaxCode
Args == 0..MaxArg
Responses == [code : Codes, arg_1 : Args, arg_2 : Args, arg_3 : Args]

\* TChannelApplicationException(code, arg_1, arg_2, arg_3)
ApplicationException(code, arg_1, arg_2, arg_3) ==
    [code |-> code, arg_1 |-> arg_1, arg_2 |-> arg_2, arg_3 |-> arg_3]

\* A handle_response that passes the arguments in the wrong order.
HandleResponseSwapped(resp) ==
    IF resp.code # 0
      THEN [kind |-> "raise",
            exc |-> ApplicationException(resp.code, resp.arg_2, resp.arg_1,
                                         resp.arg_3)]
      ELSE [kind |-> "return", value |-> resp]

\* handle_response (outgoing.py 193-201)
HandleResponse(resp) ==
    IF resp.code # 0
      THEN [kind |-> "raise",
            exc |-> ApplicationException(resp.code, resp.arg_1, resp.arg_2,
                                         resp.arg_3)]
      ELSE [kind |-> "return", value |-> resp]

\* transform_future(future, f): the new future ends as f ends on the result
\* of the first, with f's return value or with the exception f raised.
TransformFuture(result) == HandleResponse(result)

InitCall ==
    /\ response \in Responses
    /\ async \in BOOLEAN
    /\ call_pc = "pending" /\ handle = FALSE
    /\ result_future = Unresolved /\ outcome = Unresolved
    /\ ConnIdle /\ PoolIdle

\* if async: return result_future
CallReturnsFuture ==
    /\ async /\ ~handle
    /\ handle' = TRUE
    /\ UNCHANGED <<response, async, call_pc, result_future, outcome>>
    /\ UNCHANGED <<connVars, poolVars>>

\* The receiver resolves the call's future with the response.
CallResolve ==
    /\ call_pc = "pending"
    /\ result_future' = TransformFuture(response)
    /\ call_pc' = "resolved"
    /\ UNCHANGED <<response, async, handle, outcome>>
    /\ UNCHANGED <<connVars, poolVars>>

\* result_future.result(): inside send() when blocking, by the holder of the
\* returned future when deferred.
CallResult ==
    /\ call_pc = "resolved"
    /\ async => handle
    /\ outcome' = result_future
    /\ call_pc' = "returned"
    /\ UNCHANGED <<response, async, handle, result_future>>
    /\ UNCHANGED <<connVars, poolVars>>

NextCall == CallReturnsFuture \/ CallResolve \/ CallResult

SpecCall == InitCall /\ [][NextCall]_vars

\* C8. Application error shape: once the caller has the call's result, in
\* blocking and in deferred mode alike, a response with a non-zero status
\* code has made the call fail with an application error that carries that
\* code and the response's three arguments, each in its place, and a response
\* with status code 0 has been returned unmodified.
C8_ApplicationErrorShape ==
    call_pc = "returned" =>
      IF response.code # 0
        THEN /\ outcome.kind = "raise"
             /\ outcome.exc.code = response.code
             /\ outcome.exc.arg_1 = response.arg_1
             /\ outcome.exc.arg_2 = response.arg_2
             /\ outcome.exc.arg_3 = response.arg_3
        ELSE /\ outcome.kind = "return"
             /\ outcome.value = response

\* A deferred call failed with status code 1 and three arguments that are
\* not all alike.
C8_Witness ==
    /\ call_pc = "returned"
    /\ async
    /\ response.code = 1
    /\ response.arg_1 # response.arg_2
    /\ outcome.kind = "raise"

====
